---- MODULE Spec2Model ----
(***************************************************************************)
(* ESGenius front end: the chat widget (AIChatbot), the dashboard with its *)
(* PDF text extraction (ESGDashboard), the viewer with its analysis call   *)
(* and its locate-in-document routine (PDFViewer) and the analysis popup   *)
(* (GeminiESGPopup), as state machines over the React state of each        *)
(* component.                                                              *)
(*                                                                         *)
(* A JavaScript string is a sequence of pieces (TLA+ strings) whose        *)
(* concatenation is the string.  A literal of the code is one piece; a     *)
(* text the code slices, splits, trims or filters is held one character    *)
(* per piece.  The chat widget holds the document text it is given as runs, *)
(* Run(c, n) being the character c repeated n times.  A nullable value is  *)
(* Null or Some(v).                                                        *)
(***************************************************************************)
EXTENDS Naturals, Sequences, FiniteSets, TLC

VARIABLES
  \* AIChatbot
  chatMounted,    \* the effect of the first render has run
  isOpen,         \* useState(false)
  pdfContext,     \* the pdfContext prop (PDFViewer passes its own on)
  messages,       \* useState<Message[]>([])
  inputMessage,   \* useState("")
  isLoading,      \* useState(false)
  fetches,        \* chat requests in flight, oldest first
  origin,         \* history: the pdfContext under which each turn originated
  lastSend        \* history: the branch the last sendMessage call took

chatVars == <<chatMounted, isOpen, pdfContext, messages, inputMessage,
              isLoading, fetches, origin, lastSend>>

VARIABLES
  \* ESGDashboard
  reports,            \* useState<ESGReport[]>([])
  reportsLoading,     \* the dashboard's isLoading, useState(true)
  isUploadModalOpen,  \* useState(false)
  selectedReport,     \* useState<ESGReport | null>(null)
  uploadedFile,       \* useState<File | null>(null)
  uploadedFilePath,   \* useState<string | null>(null)
  pdfTextContext,     \* useState<string | null>(null)
  currentView,        \* useState<"dashboard" | "pdf">("dashboard")
  uploads,            \* the handleUploadSuccess calls made so far, each where it stands
  toasts              \* the notices shown (sonner): how many, and the last one

dashVars == <<reports, reportsLoading, isUploadModalOpen, selectedReport,
              uploadedFile, uploadedFilePath, pdfTextContext, currentView,
              uploads>>

VARIABLES
  \* PDFViewer
  geminiOutput,      \* useState<any | null>(null)
  isAnalyzing,       \* useState(false)
  analysisError,     \* useState<string | null>(null)
  isSearching,       \* useState(false)
  isPdfViewerReady,  \* useState(false)
  analyses,          \* analyzeESGReport calls in flight, oldest first
  issued,            \* history: the number of analysis requests issued
  frame,             \* iframeRef.current: what the embedded frame offers now
  timers,            \* pending setTimeout / setInterval callbacks, oldest first
  findCalls,         \* history: the calls the last locate made on the frame
  \* GeminiESGPopup
  activeStatementIndex,  \* useState<number | null>(null)
  clicks                 \* history: the number of statement clicks

viewVars == <<geminiOutput, isAnalyzing, analysisError, isSearching,
              isPdfViewerReady, analyses, issued, frame, timers, findCalls,
              activeStatementIndex, clicks>>

vars == <<chatVars, dashVars, viewVars, toasts>>

notChatVars == <<dashVars, viewVars, toasts>>
notDashVars == <<chatVars, viewVars>>
notViewVars == <<chatVars, dashVars>>

----------------------------------------------------------------------------
(* Nullable values and texts *)

Null == <<>>
Some(v) == <<v>>
Val(o) == o[1]

\* String.prototype.trim strips every white-space character at both ends
IsSpace(c) == c \in {" ", "\t", "\n"}

RECURSIVE TrimLeft(_)
TrimLeft(s) ==
  IF s = <<>> THEN s
  ELSE IF IsSpace(Head(s)) THEN TrimLeft(Tail(s)) ELSE s

RECURSIVE TrimRight(_)
TrimRight(s) ==
  IF s = <<>> THEN s
  ELSE IF IsSpace(s[Len(s)]) THEN TrimRight(SubSeq(s, 1, Len(s) - 1)) ELSE s

Trim(s) == TrimRight(TrimLeft(s))

Min(a, b) == IF a <= b THEN a ELSE b

Run(c, n) == [c |-> c, n |-> n]

\* the number of characters of a text held as runs
RECURSIVE RunsLen(_)
RunsLen(s) == IF s = <<>> THEN 0 ELSE Head(s).n + RunsLen(Tail(s))

\* String.prototype.slice(0, to) of a text held as runs
RECURSIVE SliceTo(_, _)
SliceTo(s, to) ==
  IF to = 0 \/ s = <<>> THEN <<>>
  ELSE IF Head(s).n <= to THEN <<Head(s)>> \o SliceTo(Tail(s), to - Head(s).n)
  ELSE <<Run(Head(s).c, to)>>

\* all sequences over S of length at most n
RECURSIVE SeqsUpTo(_, _)
SeqsUpTo(S, n) ==
  IF n = 0 THEN {<<>>}
  ELSE LET shorter == SeqsUpTo(S, n - 1)
       IN  shorter \cup {Append(s, x) : s \in {t \in shorter : Len(t) = n - 1}, x \in S}

----------------------------------------------------------------------------
(* AIChatbot *)

SliceLimit == 12000

ReportPrompt ==
  "You are an expert ESG analyst. You are helping a user analyze this ESG report:\n\n"
WaitPrompt ==
  "You are an expert ESG analyst. Please wait for the document to be loaded."
FallbackReply == "Sorry, I couldn't process your request."
NotOkMessage == "Failed to get a response from the AI."
ErrorPrefix == "Sorry, there was an error: "
UnknownError == "An unknown error occurred."

\* mutant: the whole document is put into the system turn
SystemMessage_Unsliced(ctx) ==
  IF ctx # Null /\ Val(ctx) # <<>>
  THEN [role |-> "system", content |-> <<ReportPrompt>> \o Val(ctx)]
  ELSE [role |-> "system", content |-> <<WaitPrompt>>]

\* the system turn of the effect on [pdfContext]
SystemMessage(ctx) ==
  IF ctx # Null /\ Val(ctx) # <<>>
  THEN [role |-> "system",
        content |-> <<ReportPrompt>> \o SliceTo(Val(ctx), SliceLimit)]
  ELSE [role |-> "system", content |-> <<WaitPrompt>>]

HasContext(ctx) == ctx # Null /\ Val(ctx) # <<>>

\* documents the dashboard can hand down: none, a short text, a text longer
\* than the slice of the system turn
MaxOverhang == 1
ShortDoc == <<Run("\n", 2), Run("E", 1), Run("S", 1), Run("G", 1)>>
LongDoc == <<Run("\n", 2), Run("x", SliceLimit - 2), Run("z", MaxOverhang)>>
Contexts == {Null, Some(ShortDoc), Some(LongDoc)}

\* what the user can have in the input box
InputTexts == {<<>>, <<" ">>, <<"q">>, <<" ", "h", "i", "\t">>}

\* the conversation is bounded: nobody sends once it holds MaxMessages turns
MaxMessages == 4
CanGrow == Len(messages) < MaxMessages

(* The service's answers.  fetch either rejects (with an Error or with some *)
(* other value) or resolves to a response: ok or not, its body JSON or not, *)
(* the JSON any shape.                                                      *)
Rejected(isErr, msg) ==
  [kind |-> "rejected", isError |-> isErr, message |-> msg,
   ok |-> FALSE, jsonOk |-> FALSE, data |-> Null]
Response(isOk, parses, msg, d) ==
  [kind |-> "response", isError |-> TRUE, message |-> msg,
   ok |-> isOk, jsonOk |-> parses, data |-> d]

Choice(c) == Some([message |-> Some([content |-> c])])
Payload(cs) == Some([choices |-> cs])
ReplyText == <<"Scope 3 is missing.">>
OtherText == <<"second choice">>

Payloads ==
  { Null,                                          \* JSON null
    Payload(Null),                                 \* no choices
    Payload(Some(<<>>)),                           \* choices: []
    Payload(Some(<<Null>>)),                       \* choices: [null]
    Payload(Some(<<Some([message |-> Null])>>)),   \* a choice without message
    Payload(Some(<<Choice(Null)>>)),               \* a message without content
    Payload(Some(<<Choice(Some(<<>>))>>)),         \* content: ""
    Payload(Some(<<Choice(Some(ReplyText))>>)),
    Payload(Some(<<Choice(Some(ReplyText)), Choice(Some(OtherText))>>)) }

FetchOutcomes ==
  { Rejected(TRUE, "Failed to fetch"), Rejected(FALSE, "") }
  \cup { Response(FALSE, TRUE, "", Payload(Some(<<Choice(Some(OtherText))>>))) }
  \cup { Response(TRUE, FALSE, "Unexpected end of JSON input", Null) }
  \cup { Response(TRUE, TRUE, "", d) : d \in Payloads }

NullDataMessage == "Cannot read properties of null (reading 'choices')"

\* data.choices?.[0]?.message?.content, for data that is not null
FirstChoiceContent(data) ==
  LET d == Val(data) IN
  IF d.choices = Null THEN Null
  ELSE IF Len(Val(d.choices)) = 0 THEN Null
  ELSE LET c == Val(d.choices)[1] IN
       IF c = Null THEN Null
       ELSE IF Val(c).message = Null THEN Null
       ELSE Val(Val(c).message).content

\* mutant: the status of the response is not looked at
Thrown_StatusIgnored(o) ==
  IF o.kind = "rejected" THEN Some([isError |-> o.isError, message |-> o.message])
  ELSE IF ~o.jsonOk THEN Some([isError |-> TRUE, message |-> o.message])
  ELSE IF o.data = Null THEN Some([isError |-> TRUE, message |-> NullDataMessage])
  ELSE Null

\* what the try block throws, if anything
Thrown(o) ==
  IF o.kind = "rejected" THEN Some([isError |-> o.isError, message |-> o.message])
  ELSE IF ~o.ok THEN Some([isError |-> TRUE, message |-> NotOkMessage])
  ELSE IF ~o.jsonOk THEN Some([isError |-> TRUE, message |-> o.message])
  ELSE IF o.data = Null THEN Some([isError |-> TRUE, message |-> NullDataMessage])
  ELSE Null

\* the content of the assistant turn appended for outcome o
AssistantContent(o) ==
  IF Thrown(o) # Null
  THEN LET error == Val(Thrown(o))
           errorMessage == IF error.isError THEN error.message ELSE UnknownError
       IN  <<ErrorPrefix, errorMessage>>
  ELSE LET c == FirstChoiceContent(o.data)
       IN  IF c # Null /\ Val(c) # <<>> THEN Val(c) ELSE <<FallbackReply>>

\* useEffect(..., [pdfContext])
ContextEffect(ctx) ==
  /\ messages' = <<SystemMessage(ctx)>>
  /\ origin' = <<ctx>>

ChatMount ==
  /\ ~chatMounted
  /\ chatMounted' = TRUE
  /\ ContextEffect(pdfContext)
  /\ UNCHANGED <<isOpen, pdfContext, inputMessage, isLoading, fetches, lastSend>>
  /\ UNCHANGED notChatVars

\* the parent renders the widget with another pdfContext
ContextChange ==
  /\ chatMounted
  /\ \E c \in Contexts :
       /\ c # pdfContext
       /\ pdfContext' = c
       /\ ContextEffect(c)
  /\ UNCHANGED <<chatMounted, isOpen, inputMessage, isLoading, fetches, lastSend>>
  /\ UNCHANGED notChatVars

ToggleOpen ==
  /\ chatMounted
  /\ isOpen' = ~isOpen
  /\ UNCHANGED <<chatMounted, pdfContext, messages, inputMessage, isLoading,
                 fetches, origin, lastSend>>
  /\ UNCHANGED notChatVars

\* mutant: the pending request is not looked at
SendReturnsEarly_BlankOnly == Trim(inputMessage) = <<>>

SendReturnsEarly == Trim(inputMessage) = <<>> \/ isLoading

sendMessage ==
  IF SendReturnsEarly
  THEN /\ lastSend' = "returned"
       /\ UNCHANGED <<chatMounted, isOpen, pdfContext, messages, inputMessage,
                      isLoading, fetches, origin>>
  ELSE LET userMessageContent == Trim(inputMessage)
           currentMessages ==
             Append(messages, [role |-> "user", content |-> userMessageContent])
       IN  /\ messages' = currentMessages
           /\ inputMessage' = <<>>
           /\ isLoading' = TRUE
           /\ fetches' = Append(fetches, [body |-> currentMessages,
                                          ctx |-> pdfContext,
                                          outcome |-> Null])
           /\ origin' = Append(origin, pdfContext)
           /\ lastSend' = "sent"
           /\ UNCHANGED <<chatMounted, isOpen, pdfContext>>

handleKeyPress(key, shiftKey) ==
  IF key = "Enter" /\ ~shiftKey THEN sendMessage ELSE UNCHANGED vars

onChange(value) ==
  /\ inputMessage' = value
  /\ UNCHANGED <<chatMounted, isOpen, pdfContext, messages, isLoading, fetches,
                 origin, lastSend>>

\* mutant: the input is disabled only while a request is pending
InputDisabled_PendingOnly == isLoading

\* the disabled attributes of the input and of the send button
InputDisabled == isLoading \/ ~HasContext(pdfContext)
SendButtonDisabled ==
  Trim(inputMessage) = <<>> \/ isLoading \/ ~HasContext(pdfContext)

\* the user, through the rendered card: a disabled control takes no event
UserTypes ==
  /\ chatMounted /\ isOpen /\ ~InputDisabled
  /\ \E v \in InputTexts : onChange(v)
  /\ UNCHANGED notChatVars

UserPressesKey ==
  /\ chatMounted /\ isOpen /\ ~InputDisabled /\ CanGrow
  /\ \E key \in {"Enter", "q"}, shiftKey \in BOOLEAN : handleKeyPress(key, shiftKey)
  /\ UNCHANGED notChatVars

UserClicksSend ==
  /\ chatMounted /\ isOpen /\ ~SendButtonDisabled /\ CanGrow
  /\ sendMessage
  /\ UNCHANGED notChatVars

\* the network settles a request in flight
FetchSettles ==
  \E i \in 1..Len(fetches), o \in FetchOutcomes :
    /\ fetches[i].outcome = Null
    /\ fetches' = [fetches EXCEPT ![i].outcome = Some(o)]
    /\ UNCHANGED <<chatMounted, isOpen, pdfContext, messages, inputMessage,
                   isLoading, origin, lastSend>>
    /\ UNCHANGED notChatVars

RemoveAt(s, i) == SubSeq(s, 1, i - 1) \o SubSeq(s, i + 1, Len(s))

\* sendMessage resumes after its awaits: the rest of try, catch and finally
SendResumes ==
  \E i \in 1..Len(fetches) :
    /\ fetches[i].outcome # Null
    /\ messages' = Append(messages,
                          [role |-> "assistant",
                           content |-> AssistantContent(Val(fetches[i].outcome))])
    /\ origin' = Append(origin, fetches[i].ctx)
    /\ isLoading' = FALSE
    /\ fetches' = RemoveAt(fetches, i)
    /\ UNCHANGED <<chatMounted, isOpen, pdfContext, inputMessage, lastSend>>
    /\ UNCHANGED notChatVars

\* the handlers called in any order, as functions, whatever the rendered
\* controls allow
CallOnChange ==
  /\ chatMounted
  /\ \E v \in InputTexts : onChange(v)
  /\ UNCHANGED notChatVars

CallSendMessage ==
  /\ chatMounted /\ CanGrow
  /\ sendMessage
  /\ UNCHANGED notChatVars

ChatStart ==
  /\ chatMounted = FALSE
  /\ isOpen = FALSE
  /\ pdfContext \in Contexts
  /\ messages = <<>>
  /\ inputMessage = <<>>
  /\ isLoading = FALSE
  /\ fetches = <<>>
  /\ origin = <<>>
  /\ lastSend = "none"

NextChat ==
  \/ ChatMount
  \/ ContextChange
  \/ ToggleOpen
  \/ UserTypes
  \/ UserPressesKey
  \/ UserClicksSend
  \/ FetchSettles
  \/ SendResumes

NextHandlers ==
  \/ ChatMount
  \/ ContextChange
  \/ CallOnChange
  \/ CallSendMessage
  \/ FetchSettles
  \/ SendResumes

----------------------------------------------------------------------------
(* The life of a PDFViewer instance *)

\* what the document in the iframe offers: whether its window and document
\* may be touched from outside, the state of PDFViewerApplication and its
\* findController, and how window.find answers
Frame(loaded, access, app, find) ==
  [loaded |-> loaded, access |-> access, app |-> app, find |-> find]

\* the empty document an iframe shows until its src has loaded
BlankFrame == Frame(FALSE, TRUE, "none", "miss")

LoadedFrames ==
  { Frame(TRUE, FALSE, "none", "none"),      \* another origin
    Frame(TRUE, TRUE, "none", "hit"),        \* the browser's own viewer
    Frame(TRUE, TRUE, "none", "miss"),
    Frame(TRUE, TRUE, "none", "throws"),
    Frame(TRUE, TRUE, "none", "none"),       \* no window.find
    Frame(TRUE, TRUE, "starting", "hit"),    \* PDF.js, findController not yet set
    Frame(TRUE, TRUE, "ready", "hit"),       \* PDF.js
    Frame(TRUE, TRUE, "broken", "hit") }     \* PDF.js, executeCommand throws

SearchDelay == 1000
PollInterval == 1000
ClearDelay == 3000

\* a pending callback; live: the instance that set it is still mounted
Timer(kind, delay, text, searchText) ==
  [kind |-> kind, delay |-> delay, text |-> text, searchText |-> searchText,
   live |-> TRUE]

PollTimer == Timer("poll", PollInterval, <<>>, <<>>)
ClearTimer == Timer("clear", ClearDelay, <<>>, <<>>)

Orphaned(seq, kinds) ==
  [k \in 1..Len(seq) |->
     IF seq[k].kind \in kinds THEN [seq[k] EXCEPT !.live = FALSE] ELSE seq[k]]

\* no viewer is mounted
ViewStart ==
  /\ geminiOutput = Null
  /\ isAnalyzing = FALSE
  /\ analysisError = Null
  /\ isSearching = FALSE
  /\ isPdfViewerReady = FALSE
  /\ analyses = <<>>
  /\ issued = 0
  /\ frame = Null
  /\ timers = <<>>
  /\ findCalls = <<>>
  /\ activeStatementIndex = Null
  /\ clicks = 0

\* the first render of a PDFViewer and its effect: the readiness interval
ViewerMounts ==
  /\ geminiOutput' = Null
  /\ isAnalyzing' = FALSE
  /\ analysisError' = Null
  /\ isSearching' = FALSE
  /\ isPdfViewerReady' = FALSE
  /\ frame' = Some(BlankFrame)
  /\ timers' = Append(timers, PollTimer)
  /\ activeStatementIndex' = Null
  /\ UNCHANGED <<analyses, issued, findCalls, clicks>>

\* the viewer goes: its state and its popup's are dropped, the effect's
\* cleanup clears the interval, the ref is reset; what it had started
\* will still call back
ViewerUnmounts ==
  /\ geminiOutput' = Null
  /\ isAnalyzing' = FALSE
  /\ analysisError' = Null
  /\ isSearching' = FALSE
  /\ isPdfViewerReady' = FALSE
  /\ frame' = Null
  /\ timers' = Orphaned(SelectSeq(timers, LAMBDA tm : tm.kind # "poll"),
                        {"search", "clear"})
  /\ analyses' = Orphaned(analyses, {"analysis"})
  /\ activeStatementIndex' = Null
  /\ UNCHANGED <<issued, findCalls, clicks>>

\* the props of a mounted viewer change: a new fileUrl reloads the iframe
ViewerRerenders ==
  /\ frame' = IF uploadedFilePath' # uploadedFilePath
              THEN Some(BlankFrame) ELSE frame
  /\ UNCHANGED <<geminiOutput, isAnalyzing, analysisError, isSearching,
                 isPdfViewerReady, analyses, issued, timers, findCalls,
                 activeStatementIndex, clicks>>

----------------------------------------------------------------------------
(* ESGDashboard *)

\* Array.prototype.join on the strings of a page
RECURSIVE Join(_, _)
Join(items, sep) ==
  IF items = <<>> THEN <<>>
  ELSE IF Len(items) = 1 THEN <<items[1]>>
  ELSE <<Head(items), sep>> \o Join(Tail(items), sep)

\* `\n\nPage ${i}:\n${pageText}`
PageBlock(i, pageText) == <<"\n\nPage ", ToString(i), ":\n">> \o pageText

\* an ESGReport, as far as the dashboard's handlers read it
Report(id, title, filePath) == [id |-> id, title |-> title, filePath |-> filePath]
RepNew == Report("3", "Uploaded", Some("/uploads/new.pdf"))
RepLegacy == Report("0", "Legacy", Null)

\* what GET /api/pdfs answers with, most recent first
ServerLists == {<<>>, <<RepNew, RepLegacy>>}

\* a File and the document pdf.js finds in it: one sequence of text items
\* per page, or no document at all
File(name, valid, pages) ==
  [name |-> name, path |-> "/uploads/" \o name, valid |-> valid, pages |-> pages]
FileA == File("a.pdf", TRUE, << <<"Net Zero", "by 2030">> >>)
FileB == File("b.pdf", TRUE, << <<"Scope 3">> >>)
FileBad == File("bad.pdf", FALSE, <<>>)
DashFiles == {FileA, FileB, FileBad}

\* every document of up to MaxPages pages over a few kinds of page
MaxPages == 2
PageKinds == {<<>>, <<"Net Zero by 2030">>, <<"a", "", "b">>}
GenFiles ==
  {File("gen.pdf", TRUE, pages) : pages \in SeqsUpTo(PageKinds, MaxPages) \ {<<>>}}

MaxUploads == 2

\* toast.success / toast.error
Notify(t) == toasts' = [n |-> toasts.n + 1, last |-> Some(t)]

UploadedToast == [kind |-> "success", text |-> <<"ESG report uploaded successfully!">>]
UploadFailedToast == [kind |-> "error", text |-> <<"Failed to load updated reports">>]
LoadFailedToast == [kind |-> "error", text |-> <<"Failed to load reports">>]

\* the effect of the first render: fetchPDFs settles
FetchPDFsSettles ==
  /\ reportsLoading
  /\ \/ /\ \E list \in ServerLists : reports' = list
        /\ UNCHANGED toasts
     \/ /\ Notify(LoadFailedToast)
        /\ UNCHANGED reports
  /\ reportsLoading' = FALSE
  /\ UNCHANGED <<isUploadModalOpen, selectedReport, uploadedFile,
                 uploadedFilePath, pdfTextContext, currentView, uploads>>
  /\ UNCHANGED notDashVars

OpenUploadModal ==
  /\ currentView = "dashboard"
  /\ ~isUploadModalOpen
  /\ isUploadModalOpen' = TRUE
  /\ UNCHANGED <<reports, reportsLoading, selectedReport, uploadedFile,
                 uploadedFilePath, pdfTextContext, currentView, uploads, toasts>>
  /\ UNCHANGED notDashVars

CloseUploadModal ==
  /\ currentView = "dashboard"
  /\ isUploadModalOpen
  /\ isUploadModalOpen' = FALSE
  /\ UNCHANGED <<reports, reportsLoading, selectedReport, uploadedFile,
                 uploadedFilePath, pdfTextContext, currentView, uploads, toasts>>
  /\ UNCHANGED notDashVars

handleCardClick(report) ==
  /\ selectedReport' = Some(report)
  /\ currentView' = "pdf"
  /\ uploadedFilePath' =
       IF report.filePath # Null THEN report.filePath ELSE uploadedFilePath
  /\ pdfTextContext' = Null
  /\ UNCHANGED <<reports, reportsLoading, isUploadModalOpen, uploadedFile,
                 uploads, toasts>>

\* a card of the grid is clicked
UserClicksCard ==
  /\ currentView = "dashboard"
  /\ ~reportsLoading
  /\ ~isUploadModalOpen
  /\ \E k \in 1..Len(reports) : handleCardClick(reports[k])
  /\ ViewerMounts
  /\ UNCHANGED chatVars

handleBackToDashboard ==
  /\ currentView' = "dashboard"
  /\ selectedReport' = Null
  /\ uploadedFile' = Null
  /\ uploadedFilePath' = Null
  /\ pdfTextContext' = Null
  /\ UNCHANGED <<reports, reportsLoading, isUploadModalOpen, uploads, toasts>>

\* the viewer's back button
UserGoesBack ==
  /\ currentView = "pdf"
  /\ handleBackToDashboard
  /\ ViewerUnmounts
  /\ UNCHANGED chatVars

\* handleUploadSuccess(file, filePath) up to its first await
NewUpload(file) ==
  [file |-> file, filePath |-> file.path, pc |-> "list", newReport |-> Null,
   i |-> 0, fullText |-> <<>>, asked |-> <<>>]

\* the upload modal reports a stored file
UploadSucceeds(files, limit) ==
  /\ currentView = "dashboard"
  /\ isUploadModalOpen
  /\ Len(uploads) < limit
  /\ \E f \in files : uploads' = Append(uploads, NewUpload(f))
  /\ UNCHANGED <<reports, reportsLoading, isUploadModalOpen, selectedReport,
                 uploadedFile, uploadedFilePath, pdfTextContext, currentView,
                 toasts>>
  /\ UNCHANGED notDashVars

UserUploads == UploadSucceeds(DashFiles, MaxUploads)
UserUploadsDocument == UploadSucceeds(GenFiles, 1)

KeepDocumentState ==
  /\ UNCHANGED <<selectedReport, uploadedFile, uploadedFilePath,
                 pdfTextContext, currentView, isUploadModalOpen>>
  /\ UNCHANGED viewVars

\* mutant: the file is shown before its text has been extracted
UploadListArrives_EarlyOpen(t, list) ==
  /\ reports' = list
  /\ IF list # <<>>
     THEN /\ Notify(UploadedToast)
          /\ uploads' = [uploads EXCEPT ![t].newReport = Some(list[1]),
                                        ![t].pc = "arrayBuffer"]
          /\ uploadedFile' = Some(uploads[t].file)
          /\ uploadedFilePath' = Some(uploads[t].filePath)
          /\ currentView' = "pdf"
          /\ IF currentView = "pdf" THEN ViewerRerenders ELSE ViewerMounts
          /\ UNCHANGED <<selectedReport, pdfTextContext, isUploadModalOpen>>
     ELSE /\ uploads' = [uploads EXCEPT ![t].pc = "done"]
          /\ UNCHANGED toasts
          /\ KeepDocumentState

\* the list has arrived: setReports, newReport, the toast, and extractPdfText
\* up to its first await
UploadListArrives(t, list) ==
  /\ reports' = list
  /\ IF list # <<>>
     THEN /\ Notify(UploadedToast)
          /\ uploads' = [uploads EXCEPT ![t].newReport = Some(list[1]),
                                        ![t].pc = "arrayBuffer"]
     ELSE /\ uploads' = [uploads EXCEPT ![t].pc = "done"]
          /\ UNCHANGED toasts
  /\ KeepDocumentState

\* mutant: an upload that completes while a file is on show replaces the
\* text and leaves the file
UploadCommits_KeepsFile(t, text) ==
  /\ uploads' = [uploads EXCEPT ![t].pc = "done", ![t].fullText = text,
                                ![t].i = uploads[t].i + 1]
  /\ pdfTextContext' = Some(text)
  /\ uploadedFile' =
       IF uploadedFile = Null THEN Some(uploads[t].file) ELSE uploadedFile
  /\ uploadedFilePath' =
       IF uploadedFile = Null THEN Some(uploads[t].filePath)
       ELSE uploadedFilePath
  /\ selectedReport' = uploads[t].newReport
  /\ isUploadModalOpen' = FALSE
  /\ currentView' = "pdf"
  /\ IF currentView = "pdf" THEN ViewerRerenders ELSE ViewerMounts
  /\ UNCHANGED <<reports, toasts>>

\* extractPdfText has returned text: the six set-state calls
UploadCommits(t, text) ==
  /\ uploads' = [uploads EXCEPT ![t].pc = "done", ![t].fullText = text,
                                ![t].i = uploads[t].i + 1]
  /\ pdfTextContext' = Some(text)
  /\ uploadedFile' = Some(uploads[t].file)
  /\ uploadedFilePath' = Some(uploads[t].filePath)
  /\ selectedReport' = uploads[t].newReport
  /\ isUploadModalOpen' = FALSE
  /\ currentView' = "pdf"
  /\ IF currentView = "pdf" THEN ViewerRerenders ELSE ViewerMounts
  /\ UNCHANGED <<reports, toasts>>

\* mutant: the loop stops one page early
MorePages_OffByOne(t, next) == next < Len(uploads[t].file.pages)

\* the loop test i <= pdf.numPages
MorePages(t, next) == next <= Len(uploads[t].file.pages)

\* the await of upload t resolves and the handler runs on to its next await
UploadResumes ==
  /\ \E t \in 1..Len(uploads) :
       LET u == uploads[t] IN
       CASE u.pc = "list" ->
              \E list \in ServerLists : UploadListArrives(t, list)
         [] u.pc = "arrayBuffer" ->
              /\ uploads' = [uploads EXCEPT ![t].pc = "getDocument"]
              /\ KeepDocumentState
              /\ UNCHANGED <<reports, toasts>>
         [] u.pc = "getDocument" ->
              /\ u.file.valid
              /\ IF MorePages(t, 1)
                 THEN /\ uploads' = [uploads EXCEPT ![t].pc = "getPage",
                                                   ![t].i = 1,
                                                   ![t].asked = <<1>>]
                      /\ KeepDocumentState
                      /\ UNCHANGED <<reports, toasts>>
                 ELSE UploadCommits(t, <<>>)
         [] u.pc = "getPage" ->
              /\ uploads' = [uploads EXCEPT ![t].pc = "getTextContent"]
              /\ KeepDocumentState
              /\ UNCHANGED <<reports, toasts>>
         [] u.pc = "getTextContent" ->
              LET pageText == Join(u.file.pages[u.i], " ")
                  fullText == u.fullText \o PageBlock(u.i, pageText)
              IN  IF MorePages(t, u.i + 1)
                  THEN /\ uploads' = [uploads EXCEPT
                                        ![t].pc = "getPage",
                                        ![t].i = u.i + 1,
                                        ![t].fullText = fullText,
                                        ![t].asked = Append(u.asked, u.i + 1)]
                       /\ KeepDocumentState
                       /\ UNCHANGED <<reports, toasts>>
                  ELSE UploadCommits(t, fullText)
         [] OTHER -> FALSE
  /\ UNCHANGED reportsLoading
  /\ UNCHANGED chatVars

AwaitingPcs == {"list", "arrayBuffer", "getDocument", "getPage", "getTextContent"}
ExtractPcs == AwaitingPcs \ {"list"}

\* the await of upload t rejects (or the list is not ok, or not JSON): catch
UploadThrows ==
  /\ \E t \in 1..Len(uploads) :
       /\ uploads[t].pc \in AwaitingPcs
       /\ uploads' = [uploads EXCEPT ![t].pc = "failed"]
  /\ Notify(UploadFailedToast)
  /\ UNCHANGED <<reports, reportsLoading, isUploadModalOpen, selectedReport,
                 uploadedFile, uploadedFilePath, pdfTextContext, currentView>>
  /\ UNCHANGED notDashVars

DashStart ==
  /\ reports = <<>>
  /\ reportsLoading = TRUE
  /\ isUploadModalOpen = FALSE
  /\ selectedReport = Null
  /\ uploadedFile = Null
  /\ uploadedFilePath = Null
  /\ pdfTextContext = Null
  /\ currentView = "dashboard"
  /\ uploads = <<>>
  /\ toasts = [n |-> 0, last |-> Null]

NextDash ==
  \/ FetchPDFsSettles
  \/ OpenUploadModal
  \/ CloseUploadModal
  \/ UserClicksCard
  \/ UserGoesBack
  \/ UserUploads
  \/ UploadResumes
  \/ UploadThrows

NextExtract ==
  \/ FetchPDFsSettles
  \/ OpenUploadModal
  \/ CloseUploadModal
  \/ UserClicksCard
  \/ UserGoesBack
  \/ UserUploadsDocument
  \/ UploadResumes
  \/ UploadThrows

----------------------------------------------------------------------------
(* PDFViewer: analysis *)

\* a string that is neither null nor empty
Truthy(o) == o # Null /\ Val(o) # <<>>

NoContentMessage == <<"PDF content is not available for analysis.">>
UnknownAnalysisError == <<"An unknown error occurred during analysis.">>

\* what a flagged statement says, one character apiece
LongStatement ==
  <<"\"", "N", "e", "t", " ", "Z", "e", "r", "o", "\"", " ", "b", "y", " ",
    "2", "0", "3", "0", " ", "i", "s", " ", "o", "u", "r", " ", "a", "i", "m">>
ShortStatement == <<"S", "c", "o", "p", "e", " ", "3">>

\* an AnalysisResult, as far as the viewer and the popup read it
Result(flagged) == [flagged |-> flagged]
Results == {Result(<<LongStatement, <<>>, <<" ">> >>)}
LocateResults == {Result(<<LongStatement, ShortStatement, <<>>, <<" ">> >>)}

\* what a call of analyzeESGReport comes to
Resolved(value) == [kind |-> "resolved", value |-> value]
Threw(isError, message) ==
  [kind |-> "rejected", isError |-> isError, message |-> message]

\* analyzeESGReport: one result, or a failure that carries a message
analyzeESGReport(results) ==
  {Resolved(r) : r \in results}
    \cup {Threw(TRUE, <<"Failed to fetch">>),
          Threw(TRUE, <<"Analysis service answered 500">>),
          Threw(TRUE, <<"Malformed analysis response">>),
          Threw(FALSE, <<>>)}

\* an analyzeESGReport call of the viewer: req numbers the requests, outcome
\* is what the call has come to once it has settled
Analysis(req) ==
  [kind |-> "analysis", req |-> req, outcome |-> Null, live |-> TRUE]

\* the popup goes with its state; its timers will still call back
PopupUnmounts ==
  /\ activeStatementIndex' = Null
  /\ timers' = Orphaned(timers, {"clear"})

\* mutant: a new analysis leaves the error of the one before it on screen
handleAnalyzeClick_KeepsError ==
  IF ~Truthy(pdfTextContext)
  THEN /\ analysisError' = Some(NoContentMessage)
       /\ UNCHANGED <<geminiOutput, isAnalyzing, analyses, issued, timers,
                      activeStatementIndex>>
  ELSE /\ isAnalyzing' = TRUE
       /\ UNCHANGED analysisError
       /\ geminiOutput' = Null
       /\ issued' = issued + 1
       /\ analyses' = Append(analyses, Analysis(issued + 1))
       /\ PopupUnmounts

\* handleAnalyzeClick up to its await
handleAnalyzeClick ==
  IF ~Truthy(pdfTextContext)
  THEN /\ analysisError' = Some(NoContentMessage)
       /\ UNCHANGED <<geminiOutput, isAnalyzing, analyses, issued, timers,
                      activeStatementIndex>>
  ELSE /\ isAnalyzing' = TRUE
       /\ analysisError' = Null
       /\ geminiOutput' = Null
       /\ issued' = issued + 1
       /\ analyses' = Append(analyses, Analysis(issued + 1))
       /\ PopupUnmounts

\* mutant: the button stays live while an analysis is under way
AnalyzeDisabled_IgnoresPending == ~Truthy(pdfTextContext) \/ isSearching

\* the Analyze button's disabled attribute
AnalyzeDisabled == isAnalyzing \/ ~Truthy(pdfTextContext) \/ isSearching

UserClicksAnalyze(limit) ==
  /\ currentView = "pdf"
  /\ ~AnalyzeDisabled
  /\ issued < limit
  /\ handleAnalyzeClick
  /\ UNCHANGED <<isSearching, isPdfViewerReady, frame, findCalls, clicks>>
  /\ UNCHANGED <<notViewVars, toasts>>

\* the message the catch block shows
CaughtMessage(o) == IF o.isError THEN o.message ELSE UnknownAnalysisError

\* mutant: a failed analysis shows nothing
AnalysisFails_Silent(o) ==
  /\ analysisError' = Null
  /\ isAnalyzing' = FALSE
  /\ UNCHANGED geminiOutput

\* catch and finally
AnalysisFails(o) ==
  /\ analysisError' = Some(CaughtMessage(o))
  /\ isAnalyzing' = FALSE
  /\ UNCHANGED geminiOutput

\* the rest of the try block, and finally; the result shown remembers the
\* request that brought it
AnalysisSucceeds(a, o) ==
  /\ geminiOutput' = Some([req |-> a.req, data |-> o.value])
  /\ isAnalyzing' = FALSE
  /\ UNCHANGED analysisError

\* an analyzeESGReport call settles
AnalysisSettles(results) ==
  /\ \E k \in 1..Len(analyses) :
       /\ analyses[k].outcome = Null
       /\ \E o \in analyzeESGReport(results) :
            analyses' = [analyses EXCEPT ![k].outcome = Some(o)]
  /\ UNCHANGED <<geminiOutput, analysisError, isAnalyzing, isSearching,
                 isPdfViewerReady, issued, frame, timers, findCalls,
                 activeStatementIndex, clicks>>
  /\ UNCHANGED <<notViewVars, toasts>>

\* handleAnalyzeClick resumes after its await and runs to its end; the
\* set-state calls of an unmounted viewer do nothing
AnalysisResumes ==
  /\ \E k \in 1..Len(analyses) :
       /\ analyses[k].outcome # Null
       /\ analyses' = RemoveAt(analyses, k)
       /\ IF ~analyses[k].live
          THEN UNCHANGED <<geminiOutput, analysisError, isAnalyzing>>
          ELSE IF Val(analyses[k].outcome).kind = "resolved"
               THEN AnalysisSucceeds(analyses[k], Val(analyses[k].outcome))
               ELSE AnalysisFails(Val(analyses[k].outcome))
  /\ UNCHANGED <<isSearching, isPdfViewerReady, issued, frame, timers,
                 findCalls, activeStatementIndex, clicks>>
  /\ UNCHANGED <<notViewVars, toasts>>

\* the dismiss button of the error banner, shown while analysisError is truthy
DismissError ==
  /\ currentView = "pdf"
  /\ Truthy(analysisError)
  /\ analysisError' = Null
  /\ UNCHANGED <<geminiOutput, isAnalyzing, isSearching, isPdfViewerReady,
                 analyses, issued, frame, timers, findCalls,
                 activeStatementIndex, clicks>>
  /\ UNCHANGED <<notViewVars, toasts>>

\* the popup's close button, shown while geminiOutput is set
ClosePopup ==
  /\ currentView = "pdf"
  /\ geminiOutput # Null
  /\ geminiOutput' = Null
  /\ PopupUnmounts
  /\ UNCHANGED <<isAnalyzing, analysisError, isSearching, isPdfViewerReady,
                 analyses, issued, frame, findCalls, clicks>>
  /\ UNCHANGED <<notViewVars, toasts>>

----------------------------------------------------------------------------
(* PDFViewer and GeminiESGPopup: locating a statement *)

\* String.prototype.split
RECURSIVE Split(_, _)
Split(s, sep) ==
  IF \A k \in 1..Len(s) : s[k] # sep THEN <<s>>
  ELSE LET k == CHOOSE n \in 1..Len(s) :
                  s[n] = sep /\ \A m \in 1..(n - 1) : s[m] # sep
       IN  <<SubSeq(s, 1, k - 1)>> \o Split(SubSeq(s, k + 1, Len(s)), sep)

\* Array.prototype.slice(0, n)
Take(items, n) == SubSeq(items, 1, Min(n, Len(items)))

\* Array.prototype.join on an array of strings
RECURSIVE JoinText(_, _)
JoinText(words, sep) ==
  IF words = <<>> THEN <<>>
  ELSE IF Len(words) = 1 THEN words[1]
  ELSE words[1] \o <<sep>> \o JoinText(Tail(words), sep)

\* replace(/["']/g, '')
StripQuotes(s) == SelectSeq(s, LAMBDA c : c \notin {"\"", "'"})

WordLimit == 5

\* mutant: the quotes stay in
SearchText_Quoted(text) == Trim(JoinText(Take(Split(text, " "), WordLimit), " "))

\* the query searchAndScrollToText derives from a statement
SearchText(text) ==
  Trim(StripQuotes(JoinText(Take(Split(text, " "), WordLimit), " ")))

\* replace(/'/g, "\\'")
RECURSIVE EscapeQuotes(_)
EscapeQuotes(s) ==
  IF s = <<>> THEN <<>>
  ELSE (IF Head(s) = "'" THEN <<"\\", "'">> ELSE <<Head(s)>>)
         \o EscapeQuotes(Tail(s))

\* the guard of searchAndScrollToText
SearchReturnsEarly(text) == frame = Null \/ text = <<>>

\* mutant: a new locate cancels the callbacks of the locates before it
searchAndScrollToText_Debounced(text) ==
  IF SearchReturnsEarly(text) THEN timers
  ELSE Append(SelectSeq(timers, LAMBDA tm : tm.kind # "search"),
              Timer("search", SearchDelay, text, SearchText(text)))

\* the timers pending once searchAndScrollToText(text) has returned
searchAndScrollToText(text) ==
  IF SearchReturnsEarly(text) THEN timers
  ELSE Append(timers, Timer("search", SearchDelay, text, SearchText(text)))

\* GeminiESGPopup's handleStatementClick; the viewer always passes
\* onStatementClick
handleStatementClick(statement, index) ==
  /\ activeStatementIndex' = Some(index)
  /\ isSearching' = IF SearchReturnsEarly(statement) THEN isSearching ELSE TRUE
  /\ timers' = Append(searchAndScrollToText(statement), ClearTimer)

\* a flagged statement of the popup is clicked
UserClicksStatement(limit) ==
  /\ currentView = "pdf"
  /\ geminiOutput # Null
  /\ clicks < limit
  /\ \E idx \in 1..Len(Val(geminiOutput).data.flagged) :
       handleStatementClick(Val(geminiOutput).data.flagged[idx], idx - 1)
  /\ clicks' = clicks + 1
  /\ UNCHANGED <<geminiOutput, isAnalyzing, analysisError, isPdfViewerReady,
                 analyses, issued, frame, findCalls>>
  /\ UNCHANGED <<notViewVars, toasts>>

\* a callback may run once every older one that was due no later has run
Due(k) == \A j \in 1..(k - 1) : timers[j].delay > timers[k].delay

\* a call on the frame's search machinery; of: the statement it stems from
Call(via, query, highlightAll, of) ==
  [via |-> via, query |-> query, highlightAll |-> highlightAll, of |-> of]

Quoted(prefix, searchText) ==
  [kind |-> "success", text |-> <<prefix, "\"">> \o searchText \o <<"\"">>]
SearchFailedToast ==
  [kind |-> "error", text |-> <<"Could not search in PDF. Try scrolling manually.">>]

\* mutant: the new search is issued before the old one is cleared
Method1_SearchFirst(tm) ==
  <<Call("findController", tm.searchText, TRUE, tm.text),
    Call("findController", <<>>, FALSE, tm.text)>>

\* Method 1: the two executeCommand('find', ...) calls
Method1(tm) ==
  <<Call("findController", <<>>, FALSE, tm.text),
    Call("findController", tm.searchText, TRUE, tm.text)>>

\* the body of the try block: the calls it makes and the notice it ends with
Locate(tm) ==
  LET f == Val(frame) IN
  IF ~tm.live \/ ~f.access
  THEN [calls |-> <<>>, toast |-> SearchFailedToast]
  ELSE IF f.app \in {"ready", "broken"}
  THEN IF f.app = "broken"
       THEN [calls |-> <<Method1(tm)[1]>>, toast |-> SearchFailedToast]
       ELSE [calls |-> Method1(tm),
             toast |-> Quoted("Searching for: ", tm.searchText)]
  ELSE IF f.find # "none"
  THEN [calls |-> <<Call("find", tm.searchText, FALSE, tm.text)>>,
        toast |-> IF f.find = "throws" THEN SearchFailedToast
                  ELSE Quoted("Searched for: ", tm.searchText)]
  ELSE [calls |-> <<Call("script", EscapeQuotes(tm.searchText), FALSE, tm.text)>>,
        toast |-> Quoted("Attempted to search for: ", tm.searchText)]

\* the callback searchAndScrollToText has set runs
SearchTimerFires ==
  /\ \E k \in 1..Len(timers) :
       /\ timers[k].kind = "search"
       /\ Due(k)
       /\ timers' = RemoveAt(timers, k)
       /\ findCalls' = Locate(timers[k]).calls
       /\ Notify(Locate(timers[k]).toast)
       /\ isSearching' = IF timers[k].live THEN FALSE ELSE isSearching
  /\ UNCHANGED <<geminiOutput, isAnalyzing, analysisError, isPdfViewerReady,
                 analyses, issued, frame, activeStatementIndex, clicks>>
  /\ UNCHANGED notViewVars

\* the callback handleStatementClick has set runs
ClearTimerFires ==
  /\ \E k \in 1..Len(timers) :
       /\ timers[k].kind = "clear"
       /\ Due(k)
       /\ timers' = RemoveAt(timers, k)
       /\ activeStatementIndex' =
            IF timers[k].live THEN Null ELSE activeStatementIndex
  /\ UNCHANGED <<geminiOutput, isAnalyzing, analysisError, isSearching,
                 isPdfViewerReady, analyses, issued, frame, findCalls, clicks>>
  /\ UNCHANGED <<notViewVars, toasts>>

\* checkPdfViewerReady
PdfViewerReady ==
  frame # Null /\ Val(frame).access /\ Val(frame).app # "none"

\* the readiness interval ticks
PollFires ==
  /\ \E k \in 1..Len(timers) :
       /\ timers[k].kind = "poll"
       /\ Due(k)
       /\ IF PdfViewerReady
          THEN /\ isPdfViewerReady' = TRUE
               /\ timers' = RemoveAt(timers, k)
          ELSE /\ timers' = Append(RemoveAt(timers, k), PollTimer)
               /\ UNCHANGED isPdfViewerReady
  /\ UNCHANGED <<geminiOutput, isAnalyzing, analysisError, isSearching,
                 analyses, issued, frame, findCalls, activeStatementIndex,
                 clicks>>
  /\ UNCHANGED <<notViewVars, toasts>>

\* the document of the iframe arrives, or PDF.js finishes setting itself up
FrameLoads ==
  /\ frame # Null
  /\ \/ /\ ~Val(frame).loaded
        /\ \E f \in LoadedFrames : frame' = Some(f)
     \/ /\ Val(frame).app = "starting"
        /\ frame' = Some([Val(frame) EXCEPT !.app = "ready"])
  /\ UNCHANGED <<geminiOutput, isAnalyzing, analysisError, isSearching,
                 isPdfViewerReady, analyses, issued, timers, findCalls,
                 activeStatementIndex, clicks>>
  /\ UNCHANGED <<notViewVars, toasts>>

----------------------------------------------------------------------------
(* Specifications *)

\* the chat widget under the user's hands
InitChat == ChatStart /\ DashStart /\ ViewStart
SpecChat == InitChat /\ [][NextChat]_vars

\* the chat widget's handlers called in any order
InitHandlers == ChatStart /\ DashStart /\ ViewStart
SpecHandlers == InitHandlers /\ [][NextHandlers]_vars

\* the dashboard with up to MaxUploads uploads of a few files
InitDash == ChatStart /\ pdfContext = Null /\ DashStart /\ ViewStart
SpecDash == InitDash /\ [][NextDash]_vars

\* the dashboard with one upload of any document of up to MaxPages pages
InitExtract == ChatStart /\ pdfContext = Null /\ DashStart /\ ViewStart
SpecExtract == InitExtract /\ [][NextExtract]_vars

MaxAnalyses == 2
MaxClicks == 2

\* the whole application around one uploaded document
NextViewer ==
  \/ FetchPDFsSettles
  \/ OpenUploadModal
  \/ CloseUploadModal
  \/ UserClicksCard
  \/ UserGoesBack
  \/ UploadSucceeds({FileA}, 1)
  \/ UploadResumes
  \/ UploadThrows
  \/ UserClicksAnalyze(MaxAnalyses)
  \/ AnalysisSettles(Results)
  \/ AnalysisResumes
  \/ DismissError
  \/ ClosePopup
  \/ UserClicksStatement(MaxClicks)
  \/ SearchTimerFires
  \/ ClearTimerFires
  \/ PollFires
  \/ FrameLoads

InitViewer == ChatStart /\ pdfContext = Null /\ DashStart /\ ViewStart
SpecViewer == InitViewer /\ [][NextViewer]_vars

\* every statement of up to MaxWords words over a few kinds of word
MaxWords == 6
QueryWords == {<<>>, <<"a">>, <<"'", "b", "\"">>, <<"\t">>}
GenStatements == {JoinText(ws, " ") : ws \in SeqsUpTo(QueryWords, MaxWords)}
GenResults == {Result(<<st>>) : st \in GenStatements}

\* one upload, one analysis that may flag any statement, one click on it
NextQuery ==
  \/ OpenUploadModal
  \/ UploadSucceeds({FileA}, 1)
  \/ UploadResumes
  \/ UserClicksAnalyze(1)
  \/ AnalysisSettles(GenResults)
  \/ AnalysisResumes
  \/ UserClicksStatement(1)
  \/ SearchTimerFires
  \/ ClearTimerFires
  \/ PollFires
  \/ FrameLoads

InitQuery == ChatStart /\ pdfContext = Null /\ DashStart /\ ViewStart
SpecQuery == InitQuery /\ [][NextQuery]_vars

\* one upload, one analysis, and up to MaxClicks clicks on its statements,
\* in whatever frame the document loads
NextLocate ==
  \/ OpenUploadModal
  \/ UploadSucceeds({FileA}, 1)
  \/ UploadResumes
  \/ UserGoesBack
  \/ UserClicksAnalyze(1)
  \/ AnalysisSettles(LocateResults)
  \/ AnalysisResumes
  \/ ClosePopup
  \/ UserClicksStatement(MaxClicks)
  \/ SearchTimerFires
  \/ ClearTimerFires
  \/ PollFires
  \/ FrameLoads

InitLocate == ChatStart /\ pdfContext = Null /\ DashStart /\ ViewStart
SpecLocate == InitLocate /\ [][NextLocate]_vars

----------------------------------------------------------------------------
(* The chat widget's claims *)

\* p is a prefix of s, both held as runs
RECURSIVE IsPrefixRuns(_, _)
IsPrefixRuns(p, s) ==
  IF p = <<>> THEN TRUE
  ELSE IF s = <<>> THEN FALSE
  ELSE IF Head(p).c # Head(s).c THEN FALSE
  ELSE IF Head(p).n = Head(s).n THEN IsPrefixRuns(Tail(p), Tail(s))
  ELSE Head(p).n < Head(s).n /\ Len(p) = 1

\* m is the system turn for ctx: the report prompt followed by the first
\* SliceLimit characters of the document, or the placeholder without one
ReflectsContext(m, ctx) ==
  /\ m.role = "system"
  /\ IF ctx = Null
     THEN m.content = <<WaitPrompt>>
     ELSE /\ Head(m.content) = ReportPrompt
          /\ IsPrefixRuns(Tail(m.content), Val(ctx))
          /\ RunsLen(Tail(m.content)) = Min(RunsLen(Val(ctx)), SliceLimit)

\* C1: once the widget has mounted the conversation is never empty, its first
\* turn is its only system turn and is the one for the current pdfContext
\* (the first 12000 characters of the document, or the placeholder when
\* pdfContext is null); a change of pdfContext leaves exactly that one turn.
C1_SystemTurnReflectsDocument ==
  /\ [](chatMounted =>
          /\ Len(messages) >= 1
          /\ ReflectsContext(messages[1], pdfContext)
          /\ \A i \in 2..Len(messages) : messages[i].role # "system")
  /\ [][pdfContext' # pdfContext =>
          Len(messages') = 1 /\ ReflectsContext(messages'[1], pdfContext')]_vars

\* a request of the previous document is still in flight, the document is now
\* the long one and the conversation is its sliced system turn alone
C1_Witness ==
  /\ chatMounted
  /\ pdfContext = Some(LongDoc)
  /\ Len(messages) = 1
  /\ RunsLen(Tail(messages[1].content)) = SliceLimit
  /\ fetches # <<>>
  /\ fetches[1].ctx = Some(ShortDoc)

\* C2: a sendMessage call made while a request is pending returns without
\* issuing a request and without touching messages, inputMessage or
\* isLoading, so that no two chat requests are ever in flight together.
C2_PendingSendIsNoOp ==
  /\ [](Len(fetches) <= 1)
  /\ [][(isLoading /\ lastSend' = "returned" /\ lastSend = "sent") =>
          UNCHANGED <<messages, inputMessage, isLoading, fetches>>]_vars
  /\ [][isLoading =>
          /\ Len(fetches') <= Len(fetches)
          /\ (Len(messages') > Len(messages) =>
                messages'[Len(messages')].role = "assistant")]_vars

\* sendMessage was called, with text to send, while the request of the call
\* before it was pending, and returned
C2_Witness ==
  /\ isLoading
  /\ lastSend = "returned"
  /\ Len(fetches) = 1
  /\ Trim(inputMessage) # <<>>

\* the turn the claim names for outcome o of a request
IsTurnFor(content, o) ==
  IF o.kind = "rejected"
  THEN content = <<ErrorPrefix, IF o.isError THEN o.message ELSE UnknownError>>
  ELSE IF ~o.ok THEN content = <<ErrorPrefix, NotOkMessage>>
  ELSE IF ~o.jsonOk THEN content = <<ErrorPrefix, o.message>>
  ELSE IF o.data = Null THEN content = <<ErrorPrefix, NullDataMessage>>
  ELSE LET cs == Val(o.data).choices
           first == IF cs = Null \/ cs = Some(<<>>) THEN Null ELSE Val(cs)[1]
           msg == IF first = Null THEN Null ELSE Val(first).message
           text == IF msg = Null THEN Null ELSE Val(msg).content
       IN  IF text = Null \/ text = Some(<<>>)
           THEN content = <<FallbackReply>>
           ELSE content = Val(text)

\* C3: an accepted send appends the user turn and issues the request with the
\* conversation so far; when the request has settled, one assistant turn is
\* appended to the conversation as it then is: the reply, or the error or
\* fallback turn; isLoading is false again and the request is gone.  While
\* the request is in flight the history is the one that was sent, unless a
\* change of document has reset it.
C3_EverySendGetsOneAssistantTurn ==
  /\ [](\A i \in 1..Len(fetches) :
          messages = fetches[i].body \/ Len(messages) = 1)
  /\ [][Len(fetches') > Len(fetches) =>
          /\ messages' = Append(messages, [role |-> "user",
                                           content |-> Trim(inputMessage)])
          /\ Trim(inputMessage) # <<>>
          /\ fetches' = Append(fetches, [body |-> messages', ctx |-> pdfContext,
                                         outcome |-> Null])]_vars
  /\ [][Len(fetches') < Len(fetches) =>
          \E i \in 1..Len(fetches) :
            /\ fetches[i].outcome # Null
            /\ fetches' = RemoveAt(fetches, i)
            /\ Len(messages') = Len(messages) + 1
            /\ SubSeq(messages', 1, Len(messages)) = messages
            /\ messages'[Len(messages')].role = "assistant"
            /\ IsTurnFor(messages'[Len(messages')].content, Val(fetches[i].outcome))
            /\ ~isLoading']_vars

\* a request failed with a non-success status: its user turn is still there,
\* followed by the error turn, and nothing is pending
C3_Witness ==
  /\ Len(messages) = 3
  /\ messages[2].role = "user"
  /\ messages[3] = [role |-> "assistant", content |-> <<ErrorPrefix, NotOkMessage>>]
  /\ ~isLoading
  /\ fetches = <<>>

\* C4: every request in flight starts with the system turn of the document
\* that was current when it was sent, and every turn of the conversation
\* originated under the current document.
C4_NoTurnOfAnotherDocument ==
  /\ \A i \in 1..Len(fetches) :
       fetches[i].body[1] = SystemMessage(fetches[i].ctx)
  /\ \A i \in 1..Len(messages) : origin[i] = pdfContext

\* C5: from a state without document text no step issues a chat request.
C5_NoRequestWithoutDocument ==
  [][~HasContext(pdfContext) => Len(fetches') <= Len(fetches)]_vars

\* the card is open, text is in the box, nothing is pending and there is no
\* document
C5_Witness ==
  /\ chatMounted /\ isOpen
  /\ pdfContext = Null
  /\ Trim(inputMessage) # <<>>
  /\ ~isLoading


\* ---------------------------------------------------------------------
\* Dashboard claims
\* ---------------------------------------------------------------------

\* the fragments of one page with a single space between neighbours
Spaced(items) ==
  [k \in 1..(IF items = <<>> THEN 0 ELSE 2 * Len(items) - 1) |->
     IF k % 2 = 1 THEN items[(k + 1) \div 2] ELSE " "]

\* the text of pages 1..n: each page's marker, then its fragments
RECURSIVE MarkedPages(_, _)
MarkedPages(pages, n) ==
  IF n = 0 THEN <<>>
  ELSE MarkedPages(pages, n - 1)
         \o <<"\n\nPage ", ToString(n), ":\n">> \o Spaced(pages[n])

\* the page numbers of the markers of a text, in the order they appear
MarkerNumbers(text) ==
  LET at == {k \in 1..Len(text) : text[k] = "\n\nPage "}
      nth[j \in 0..Cardinality(at)] ==
        IF j = 0 THEN 0 ELSE CHOOSE k \in at : k > nth[j - 1] /\
                               \A m \in at : m > nth[j - 1] => k <= m
  IN  [j \in 1..Cardinality(at) |-> text[nth[j] + 1]]

UpTo(n) == [k \in 1..n |-> k]

\* C6: for a valid document of N pages extractPdfText asks for the pages one
\* at a time in the order 1..N (page i+1 only once page i's text is in), and
\* the text it returns carries the markers 'Page 1:' .. 'Page N:' in that
\* order, without gap or repetition, each followed by the fragments of its
\* page joined by single spaces.
C6_PagesInOrder ==
  \A t \in 1..Len(uploads) :
    LET u == uploads[t]
        N == Len(u.file.pages)
    IN  /\ u.pc \in {"getPage", "getTextContent"} =>
             /\ u.i \in 1..N
             /\ u.asked = UpTo(u.i)
             /\ u.fullText = MarkedPages(u.file.pages, u.i - 1)
        /\ (u.pc = "done" /\ u.newReport # Null) =>
             /\ u.asked = UpTo(N)
             /\ u.fullText = MarkedPages(u.file.pages, N)
             /\ MarkerNumbers(u.fullText) = [k \in 1..N |-> ToString(k)]
             /\ pdfTextContext # Null => Val(pdfTextContext) = u.fullText

C6_Witness ==
  \E t \in 1..Len(uploads) :
    /\ uploads[t].pc = "done"
    /\ uploads[t].file.pages = << <<"a", "", "b">>, <<>> >>
    /\ uploads[t].asked = <<1, 2>>
    /\ pdfTextContext =
         Some(<<"\n\nPage ", "1", ":\n", "a", " ", "", " ", "b",
                "\n\nPage ", "2", ":\n">>)

DocumentState ==
  <<pdfTextContext, uploadedFile, uploadedFilePath, selectedReport, currentView>>

\* C7: when the extraction of an uploaded file fails inside
\* handleUploadSuccess, the user is told (one more notice, the failure one)
\* and that step leaves pdfTextContext, uploadedFile, uploadedFilePath,
\* selectedReport and currentView as they were; nor has any earlier step of
\* that upload touched them.
C7_FailedExtractionKeepsState ==
  [][\A t \in 1..Len(uploads) :
       /\ (uploads[t].pc \in ExtractPcs /\ uploads'[t].pc = "failed") =>
            /\ DocumentState' = DocumentState
            /\ toasts' = [n |-> toasts.n + 1, last |-> Some(UploadFailedToast)]
       /\ (uploads[t] # uploads'[t] /\ uploads'[t].pc # "done") =>
            DocumentState' = DocumentState]_vars

C7_Witness ==
  \E t \in 1..Len(uploads) :
    /\ uploads[t].pc = "failed"
    /\ uploads[t].newReport # Null
    /\ toasts.last = Some(UploadFailedToast)
    /\ currentView = "dashboard"
    /\ uploadedFile = Null


\* ---------------------------------------------------------------------
\* Viewer claims
\* ---------------------------------------------------------------------

\* analysis k of the mounted viewer has failed and its handler resumes
FailureHandled(k) ==
  /\ k \in 1..Len(analyses)
  /\ analyses[k].live
  /\ analyses[k].outcome # Null
  /\ Val(analyses[k].outcome).kind = "rejected"
  /\ analyses' = RemoveAt(analyses, k)

\* a step that changes analysisError and nothing else: the banner's button
OnlyErrorChanges ==
  /\ analysisError' # analysisError
  /\ UNCHANGED <<geminiOutput, isAnalyzing, isSearching, isPdfViewerReady,
                 analyses, issued, frame, timers, findCalls,
                 activeStatementIndex, clicks, notViewVars, toasts>>

\* C8: when an analysis request fails, whatever the failure, the handler
\* sets analysisError to a non-empty message, geminiOutput is and stays
\* null, isAnalyzing goes back to false and no new request is issued; and a
\* displayed error goes away only by the user's doing (the banner's button,
\* a new Analyze click, leaving the viewer), never by itself.
C8_FailedAnalysisIsShown ==
  /\ [][\A k \in 1..Len(analyses) : FailureHandled(k) =>
          /\ Truthy(analysisError')
          /\ geminiOutput = Null /\ geminiOutput' = Null
          /\ isAnalyzing /\ ~isAnalyzing'
          /\ issued' = issued]_vars
  /\ [][(Truthy(analysisError) /\ analysisError' # analysisError) =>
          \/ OnlyErrorChanges /\ analysisError' = Null
          \/ issued' = issued + 1
          \/ currentView' = "dashboard"]_vars

C8_Witness ==
  /\ currentView = "pdf"
  /\ analysisError = Some(<<"Analysis service answered 500">>)
  /\ geminiOutput = Null
  /\ ~isAnalyzing
  /\ analyses = <<>>
  /\ issued = 1

LiveAnalyses == {k \in 1..Len(analyses) : analyses[k].live}

\* C9: the result on display is that of the request issued last; asking for
\* a new analysis clears the result and the error on display; and with at
\* most one request of the viewer under way, no answer to an earlier request
\* can arrive after a later one was issued.
C9_ResultIsOfLatestRequest ==
  /\ [](geminiOutput # Null => Val(geminiOutput).req = issued)
  /\ [](Cardinality(LiveAnalyses) <= 1)
  /\ [](\A k \in LiveAnalyses : analyses[k].req = issued /\ isAnalyzing)
  /\ [][issued' # issued =>
          /\ issued' = issued + 1
          /\ geminiOutput' = Null
          /\ analysisError' = Null]_vars

C9_Witness ==
  /\ currentView = "pdf"
  /\ issued = 2
  /\ geminiOutput # Null
  /\ Val(geminiOutput).req = 2
  /\ analysisError = Null


\* the part of a text before its fifth space, or all of it
BeforeFifthSpace(text) ==
  LET spaces == {k \in 1..Len(text) : text[k] = " "}
  IN  IF Cardinality(spaces) < 5 THEN text
      ELSE LET fifth == CHOOSE k \in spaces :
                          Cardinality({m \in spaces : m < k}) = 4
           IN  SubSeq(text, 1, fifth - 1)

\* a text from its first to its last character that is not white space
Stripped(text) ==
  LET ink == {k \in 1..Len(text) : ~IsSpace(text[k])}
  IN  IF ink = {} THEN <<>>
      ELSE SubSeq(text, CHOOSE k \in ink : \A m \in ink : k <= m,
                        CHOOSE k \in ink : \A m \in ink : m <= k)

ExpectedQuery(text) ==
  Stripped(SelectSeq(BeforeFifthSpace(text), LAMBDA c : c # "'" /\ c # "\""))

\* C10: the query a locate carries from searchAndScrollToText to whichever
\* search strategy runs is the statement's first five space-separated words
\* joined by single spaces, without any single or double quote, trimmed;
\* nothing after the fifth word reaches a strategy.
C10_QueryIsFirstFiveWords ==
  /\ \A k \in 1..Len(timers) :
       timers[k].kind = "search" =>
         timers[k].searchText = ExpectedQuery(timers[k].text)
  /\ \A k \in 1..Len(findCalls) :
       \/ findCalls[k].query = ExpectedQuery(findCalls[k].of)
       \/ /\ findCalls[k].via = "findController"
          /\ k = 1
          /\ findCalls[k].query = <<>>

C10_Witness ==
  \E k \in 1..Len(findCalls) :
    /\ findCalls[k].via = "find"
    /\ findCalls[k].of =
         <<"a", " ", " ", "'", "b", "\"", " ", "\t", " ", "a", " ", "a">>
    /\ findCalls[k].query = <<"a", " ", " ", "b", " ", "\t", " ", "a">>


\* ---------------------------------------------------------------------
\* Locate claims
\* ---------------------------------------------------------------------

\* the statements the popup shows
Shown == IF geminiOutput = Null THEN <<>> ELSE Val(geminiOutput).data.flagged

\* this step is the click on the statement at position idx of the popup
ClickOn(idx) ==
  /\ idx \in 1..Len(Shown)
  /\ clicks' = clicks + 1
  /\ activeStatementIndex' = Some(idx - 1)

\* the locates that have been triggered and have not run yet, oldest first
Pending(tms) == SelectSeq(tms, LAMBDA tm : tm.kind = "search")

\* this step is the run of the pending search callback k
FiredSearch(k) ==
  /\ k \in 1..Len(timers)
  /\ timers[k].kind = "search"
  /\ timers' = RemoveAt(timers, k)
  /\ toasts'.n = toasts.n + 1

\* C11: a locate with an empty or whitespace-only fragment does nothing:
\* it leaves isSearching alone, schedules no search, shows no notice, and no
\* search strategy is ever called for such a fragment.
C11_BlankLocateIsNoOp ==
  /\ [][\A idx \in 1..Len(Shown) :
          (ClickOn(idx) /\ Trim(Shown[idx]) = <<>>) =>
            /\ isSearching' = isSearching
            /\ Pending(timers') = Pending(timers)
            /\ toasts' = toasts
            /\ findCalls' = findCalls]_vars
  /\ [][\A k \in 1..Len(timers) :
          FiredSearch(k) => Trim(timers[k].text) # <<>>]_vars

\* this step is the run of search callback k of the mounted viewer
Ran(k) == FiredSearch(k) /\ timers[k].live

\* the frame offers a find controller (strategy 1) / window.find (strategy 2)
HasController == Val(frame).app \in {"ready", "broken"}
HasFind == Val(frame).find # "none"

Used(calls, via) == \E c \in 1..Len(calls) : calls[c].via = via

\* C12: without a find controller but with window.find, the same locate
\* goes on to strategy 2; with neither, the locate ends with the failure
\* notice and with no success notice.
C12_FallbackToFind ==
  [][\A k \in 1..Len(timers) :
       (Ran(k) /\ Val(frame).access /\ ~HasController) =>
         IF HasFind THEN Used(findCalls', "find")
         ELSE toasts'.last = Some(SearchFailedToast)]_vars

\* C13: a strategy that throws counts as unavailable: the locate goes on to
\* the next one, and the failure notice comes only when none is left.
C13_ThrowingStrategyIsSkipped ==
  [][\A k \in 1..Len(timers) :
       (Ran(k) /\ Val(frame).access) =>
         /\ (Val(frame).app = "broken" /\ HasFind) => Used(findCalls', "find")
         /\ (~HasController /\ Val(frame).find = "throws") =>
              Used(findCalls', "script")
         /\ toasts'.last = Some(SearchFailedToast) =>
              /\ HasController => Used(findCalls', "findController")
              /\ HasFind => Used(findCalls', "find")]_vars

\* C14: when window.find is the strategy used, the locate reports success
\* exactly when window.find returns true, and failure when it returns false.
C14_FindResultDecides ==
  [][\A k \in 1..Len(timers) :
       (Ran(k) /\ Val(frame).access /\ ~HasController
          /\ Val(frame).find \in {"hit", "miss"}) =>
         /\ Used(findCalls', "find")
         /\ (Val(toasts'.last).kind = "success") <=> (Val(frame).find = "hit")
         /\ (Val(toasts'.last).kind = "error") <=> (Val(frame).find = "miss")]_vars

\* C15: with a find controller that carries out its commands, a locate
\* first clears the previous highlight (a find with the empty query), then
\* issues one phrase search for its query with highlightAll, and reports
\* success whatever the search finds; window.find and the injected script
\* are not used: one strategy per locate, the first the frame offers.
C15_FindControllerPath ==
  [][\A k \in 1..Len(timers) :
       (Ran(k) /\ Val(frame).access /\ HasController) =>
         /\ ~Used(findCalls', "find") /\ ~Used(findCalls', "script")
         /\ findCalls' # <<>>
         /\ findCalls'[1].query = <<>> /\ ~findCalls'[1].highlightAll
         /\ Val(frame).app = "ready" =>
              /\ Len(findCalls') = 2
              /\ findCalls'[2].query = timers[k].searchText
              /\ findCalls'[2].highlightAll
              /\ Val(toasts'.last).kind = "success"]_vars

C15_Witness ==
  /\ frame # Null /\ Val(frame).app = "ready" /\ Val(frame).find = "hit"
  /\ Len(findCalls) = 2
  /\ findCalls[1].query = <<>>
  /\ findCalls[2].of = ShortStatement
  /\ findCalls[2].query = ShortStatement
  /\ toasts.last = Some(Quoted("Searching for: ", ShortStatement))

\* the pending locates, oldest first: each one's statement and query
Queries(tms) ==
  [k \in 1..Len(Pending(tms)) |->
     [text |-> Pending(tms)[k].text, query |-> Pending(tms)[k].searchText]]

\* C16: locates triggered while earlier ones are still waiting all run, in
\* the order they were triggered and each with its own query: a click puts
\* its locate behind those pending, the locate that runs is always the
\* oldest pending one, and the calls it makes carry its query. So the search
\* the frame is left with is that of the locate triggered last.
C16_LocatesRunInOrder ==
  [][LET P == Queries(timers)
         Q == Queries(timers')
     IN  \/ Q = P
         \/ \E idx \in 1..Len(Shown) :
              /\ ClickOn(idx)
              /\ Q = Append(P, [text |-> Shown[idx],
                                query |-> ExpectedQuery(Shown[idx])])
         \/ /\ P # <<>>
            /\ Q = Tail(P)
            /\ toasts'.n = toasts.n + 1
            /\ \A c \in 1..Len(findCalls') :
                 /\ findCalls'[c].of = Head(P).text
                 /\ findCalls'[c].query \in {<<>>, Head(P).query}]_vars

C16_Witness ==
  /\ Len(Pending(timers)) = 2
  /\ Pending(timers)[1].text = LongStatement
  /\ Pending(timers)[2].text = ShortStatement
  /\ Pending(timers)[1].live /\ Pending(timers)[2].live
  /\ frame # Null /\ Val(frame).app = "ready"

\* the clearing timers of clicks whose popup is still mounted
LiveClears(tms) ==
  SelectSeq(tms, LAMBDA tm : tm.kind = "clear" /\ tm.live)

\* C17: the highlight of a clicked statement lasts the full delay that
\* follows the click: it is named by the click, and it is cleared only by
\* the clearing timer of the latest click, so that no click's timer is still
\* pending when the highlight goes.
C17_HighlightLastsFullDelay ==
  [][/\ \A idx \in 1..Len(Shown) :
          ClickOn(idx) => Len(LiveClears(timers')) = Len(LiveClears(timers)) + 1
     /\ (activeStatementIndex # Null /\ activeStatementIndex' = Null)
          => LiveClears(timers') = <<>>]_vars

\* the readiness interval is still set
Polling(tms) == \E k \in 1..Len(tms) : tms[k].kind = "poll"

\* C18: a locate invokes a search strategy only once the poll has seen the
\* viewer ready; the poll is gone once readiness is seen, and
\* isPdfViewerReady falls back to false only with the viewer itself.
C18_UnreadyViewIsTolerated ==
  [][/\ \A k \in 1..Len(timers) :
          (Ran(k) /\ findCalls' # <<>>) => isPdfViewerReady
     /\ isPdfViewerReady' => ~Polling(timers')
     /\ (isPdfViewerReady /\ ~isPdfViewerReady') => frame' = Null]_vars

\* C20: isSearching covers every locate that has not run yet: while the
\* settling timer of a locate of the mounted viewer is pending the flag is
\* true, and a step takes it back to false only when none remains pending.
C20_SearchingCoversPending ==
  /\ (\E k \in 1..Len(timers) : timers[k].kind = "search" /\ timers[k].live)
       => isSearching

-----------------------------------------------------------------------------
(* Analysis display claims *)

\* C19: the viewer never holds a result and an error together, and while an
\* analysis is under way it holds neither: what an earlier analysis left is
\* not on screen while a new one is pending.
C19_ResultOrErrorNeverBoth ==
  /\ ~(geminiOutput # Null /\ analysisError # Null)
  /\ isAnalyzing => (geminiOutput = Null /\ analysisError = Null)

\* a second analysis is pending: the first one has been answered or dropped
C19_Witness ==
  /\ currentView = "pdf"
  /\ isAnalyzing
  /\ issued = 2
  /\ \E k \in 1..Len(analyses) : analyses[k].live /\ analyses[k].req = 2

-----------------------------------------------------------------------------
(* Document state claims *)

\* the text extractPdfText makes of a file
TextOf(file) == MarkedPages(file.pages, Len(file.pages))

\* the text held is that of the file held, under its path, and is on show
TextIsOfFileShown ==
  pdfTextContext # Null =>
    /\ uploadedFile # Null
    /\ Val(pdfTextContext) = TextOf(Val(uploadedFile))
    /\ uploadedFilePath = Some(Val(uploadedFile).path)
    /\ currentView = "pdf"

\* a card is opened: the view changes to the viewer and no upload completes
CardOpened ==
  /\ currentView = "dashboard" /\ currentView' = "pdf"
  /\ uploads' = uploads

\* the viewer is left for the dashboard
WentBack == currentView = "pdf" /\ currentView' = "dashboard"

\* C21: however card clicks, uploads (completing late or out of order) and
\* returns to the dashboard interleave, a text held in pdfTextContext is
\* the text extracted from the file uploadedFile and uploadedFilePath refer
\* to and the viewer is on show; opening a stored report leaves no text; and
\* going back clears the report, the file, its path and the text.
C21_TextBelongsToFileShown ==
  /\ []TextIsOfFileShown
  /\ [][CardOpened => (pdfTextContext' = Null /\ selectedReport' # Null)]_vars
  /\ [][WentBack => /\ selectedReport' = Null
                    /\ uploadedFile' = Null
                    /\ uploadedFilePath' = Null
                    /\ pdfTextContext' = Null]_vars

\* two uploads have completed out of order: the text and the file on show
\* are those of the one started first
C21_Witness ==
  /\ Len(uploads) = 2
  /\ uploads[1].file = FileA /\ uploads[2].file = FileB
  /\ uploads[1].pc = "done" /\ uploads[2].pc = "done"
  /\ uploads[1].newReport # Null /\ uploads[2].newReport # Null
  /\ uploadedFile = Some(FileA)
  /\ pdfTextContext = Some(TextOf(FileA))
  /\ currentView = "pdf"

====
